---- MODULE Spec2Model ----
(***************************************************************************)
(* A model of the GTEx loader (parsers/GTEx/src/loadGTEx.py): the variant  *)
(* and gene caches, the edge accumulator and the sort-and-merge            *)
(* coalescing of edges, driven by load().                                  *)
(*                                                                         *)
(* Strings that the code compares, sorts or concatenates are modelled as   *)
(* sequences of character codes (the code points Python compares), so     *)
(* that `+`, `<` and `split` do what they do in the code.  Floats are      *)
(* modelled as integers counting tenths (0.5 is 5, -0.3 is -3).            *)
(***************************************************************************)
EXTENDS Integers, Sequences, FiniteSets, TLC

VARIABLES
    pc,             \* where load() is: the statement about to run
    test_mode,      \* self.test_mode
    is_sqtl,        \* the dataset being parsed: FALSE the eQTL archive, TRUE the sQTL one
    files,          \* the archive files that exist at their download paths
    anatomy_id_lookup,             \* self.anatomy_id_lookup: tissue name -> anatomy id
    node_normalization_lookup,     \* the normalizer's answer: raw id -> list of ids
    gtex_variant_to_hgvs_lookup,   \* self.gtex_variant_to_hgvs_lookup: token -> id or None
    variants_that_failed_hgvs_conversion,  \* the set of that name
    written_genes,  \* self.written_genes
    edge_list,      \* self.edge_list, the accumulator
    members_read,   \* the parser: how many members of the open archive it has taken
    handles_opened, \* the members of the open archive that extractfile was called on
    line,           \* the parser's line: the line last read from the open tissue file
    anatomy_id,     \* the parser's open tissue entry: its anatomy id, NoEntry between entries
    gtex_variant,   \* load's gtex_variant: the token of the last tuple, NoToken before one
    variant_id,     \* load's variant_id: what process_variant last returned
    yielded,        \* how many tuples the parser has yielded in the run
    convert_calls,  \* token -> the number of convert_variant_to_hgvs calls made for it
    nodes_written,  \* the sink: node id -> the number of write_node calls with it
    edges_written,  \* the sink: the write_edge calls, in order
    raised          \* the exception in flight or that ended the operation, "" if none

vars == <<pc, test_mode, is_sqtl, files, anatomy_id_lookup, node_normalization_lookup,
          gtex_variant_to_hgvs_lookup,
          variants_that_failed_hgvs_conversion, written_genes, edge_list, members_read,
          handles_opened, line, anatomy_id, gtex_variant, variant_id, yielded, convert_calls, nodes_written,
          edges_written, raised>>

\* ------------------------------------------------------------- bounds

\* longest accumulator the coalescing specification starts from
MaxLen == 3
\* most tuples the parser yields in one run of load()
MaxTuples == 2

\* ------------------------------------------------------------ strings

Range(s) == {s[i] : i \in DOMAIN s}

\* Python's str < str: by code point, a proper prefix is smaller.
RECURSIVE StrLess(_, _)
StrLess(a, b) ==
    IF b = <<>> THEN FALSE
    ELSE IF a = <<>> THEN TRUE
    ELSE IF Head(a) # Head(b) THEN Head(a) < Head(b)
    ELSE StrLess(Tail(a), Tail(b))

\* str.split(sep) for a one-character separator
RECURSIVE Split(_, _)
Split(s, sep) ==
    IF s = <<>> THEN << <<>> >>
    ELSE LET rest == Split(Tail(s), sep)
         IN  IF <<Head(s)>> = sep
             THEN << <<>> >> \o rest
             ELSE << <<Head(s)>> \o rest[1] >> \o Tail(rest)

\* s.find(sub) != -1
Contains(s, sub) ==
    \E i \in 1..(Len(s) - Len(sub) + 1) : SubSeq(s, i, i + Len(sub) - 1) = sub

IsDigits(s) == s # <<>> /\ \A i \in DOMAIN s : s[i] \in 48..57

RECURSIVE DigitsValue(_)
DigitsValue(s) ==
    IF s = <<>> THEN 0
    ELSE 10 * DigitsValue(SubSeq(s, 1, Len(s) - 1)) + (s[Len(s)] - 48)

\* int(text) succeeds (on the texts of the model: a run of digits)
IntOk(s) == IsDigits(s)

\* float(text), on the texts of the model: [-]digits[.digit].  FloatOk is
\* "no ValueError"; FloatValue is the value in tenths.
Unsigned(s) == IF s # <<>> /\ Head(s) = 45 THEN Tail(s) ELSE s
FloatOk(s) ==
    LET parts == Split(Unsigned(s), <<46>>)
    IN  \/ Len(parts) = 1 /\ IsDigits(parts[1])
        \/ Len(parts) = 2 /\ IsDigits(parts[1]) /\ IsDigits(parts[2]) /\ Len(parts[2]) = 1
FloatValue(s) ==
    LET parts == Split(Unsigned(s), <<46>>)
        mag == 10 * DigitsValue(parts[1]) + (IF Len(parts) = 2 THEN DigitsValue(parts[2]) ELSE 0)
    IN  IF Head(s) = 45 THEN 0 - mag ELSE mag

\* Python's None and '' alike: what `if x:` takes for false
None == <<>>
Truthy(x) == x # None

\* the write left out
BagUnchanged(b, x) == b

\* a counter per key that starts absent
BagAdd(b, x) == IF x \in DOMAIN b THEN [b EXCEPT ![x] = @ + 1] ELSE b @@ (x :> 1)
BagCount(b, x) == IF x \in DOMAIN b THEN b[x] ELSE 0

\* ---------------------------------------------------------- coalescing

\* the sort key of line 365: the tuple (subject, object, predicate)
SortKey(i) == <<i.subject, i.object, i.predicate>>

\* Python's tuple < tuple on two sort keys: the first differing position decides.
KeyLess(k1, k2) ==
    \/ StrLess(k1[1], k2[1])
    \/ k1[1] = k2[1] /\ StrLess(k1[2], k2[2])
    \/ k1[1] = k2[1] /\ k1[2] = k2[2] /\ StrLess(k1[3], k2[3])

\* One step of a stable sort: x, which came after every element of the sorted
\* prefix s, goes behind the elements whose key is not greater than its own.
\* x taken before y also when their keys are level
BeforeOrLevel(x, y) == ~KeyLess(SortKey(y), SortKey(x))

\* sorted() moves x before an earlier y only when x's key is the smaller one
GoesBefore(x, y) == KeyLess(SortKey(x), SortKey(y))

RECURSIVE InsertSorted(_, _)
InsertSorted(s, x) ==
    IF s = <<>> THEN <<x>>
    ELSE IF GoesBefore(x, s[Len(s)])
         THEN Append(InsertSorted(SubSeq(s, 1, Len(s) - 1), x), s[Len(s)])
         ELSE Append(s, x)

RECURSIVE StableSort(_)
StableSort(l) ==
    IF l = <<>> THEN <<>>
    ELSE InsertSorted(StableSort(SubSeq(l, 1, Len(l) - 1)), l[Len(l)])

\* sorted(self.edge_list, key=lambda i: (i['subject'], i['object'], i['predicate']))
UnsortedList(l) == l
SortedEdgeList(l) == StableSort(l)

\* the group key without the predicate
GroupKeyNoPredicate(item) == item.subject \o item.object

\* the group key of lines 376 and 384: the three ids concatenated
GroupKey(item) == item.subject \o item.predicate \o item.object

\* kgx_file_writer.write_edge(...) with the arrays collected for cur_record
WriteEdge(st) ==
    Append(st.out,
           [subject      |-> st.cur_record.subject,
            object       |-> st.cur_record.object,
            predicate    |-> st.cur_record.predicate,
            expressed_in |-> st.anatomy_ids,
            p_value      |-> st.p_values,
            slope        |-> st.slopes])

\* lines 387-408 with the slope array left as it was
NewGroupKeepSlopes(st, item) ==
    [st EXCEPT !.out = WriteEdge(st),
               !.cur_record = item,
               !.anatomy_ids = <<>>,
               !.p_values = <<>>,
               !.start_group_key = GroupKey(item)]

\* lines 387-408: a new grouping writes the previous group and resets the arrays
NewGroup(st, item) ==
    [st EXCEPT !.out = WriteEdge(st),
               !.cur_record = item,
               !.anatomy_ids = <<>>,
               !.p_values = <<>>,
               !.slopes = <<>>,
               !.start_group_key = GroupKey(item)]

\* lines 382-413: the body of the loop for one item
ScanItem(st, item) ==
    LET s1 == IF GroupKey(item) # st.start_group_key THEN NewGroup(st, item) ELSE st
    IN  [s1 EXCEPT !.anatomy_ids = Append(@, item.expressed_in),
                   !.p_values = Append(@, item.p_value),
                   !.slopes = Append(@, item.slope)]

RECURSIVE ScanFrom(_, _, _)
ScanFrom(l, i, st) ==
    IF i > Len(l) THEN st ELSE ScanFrom(l, i + 1, ScanItem(st, l[i]))

\* lines 367-413 without lines 415-427: the group left at the end is not written
MergeSortedNoRest(l) ==
    ScanFrom(l, 1, [start_group_key |-> GroupKey(l[1]),
                    cur_record      |-> l[1],
                    anatomy_ids     |-> <<>>,
                    p_values        |-> <<>>,
                    slopes          |-> <<>>,
                    out             |-> <<>>]).out

\* lines 367-427 on the sorted, non-empty list l: the edges written, in order
MergeSorted(l) ==
    LET st0 == [start_group_key |-> GroupKey(l[1]),
                cur_record      |-> l[1],
                anatomy_ids     |-> <<>>,
                p_values        |-> <<>>,
                slopes          |-> <<>>,
                out             |-> <<>>]
        fin == ScanFrom(l, 1, st0)
    IN  IF Len(fin.anatomy_ids) > 0 THEN WriteEdge(fin) ELSE fin.out

\* coalesce_and_write_edges: the list is sorted in place; item = self.edge_list[0]
\* raises IndexError on an empty list, before anything is written.
CoalesceResult(l) ==
    LET sorted == SortedEdgeList(l)
    IN  IF sorted = <<>>
        THEN [edge_list |-> sorted, written |-> <<>>, raised |-> "IndexError"]
        ELSE [edge_list |-> sorted, written |-> MergeSorted(sorted), raised |-> ""]

\* ------------------------------------------------- constants and inputs

\* "HGVS" and "ENSEMBL:" (Common.prefixes, line 341)
HGVS == <<72, 71, 86, 83>>
ENSEMBL_PREFIX == <<69, 78, 83, 69, 77, 66, 76, 58>>
COLON == <<58>>

\* "CTD:affects_splicing_of", "CTD:increases_expression_of", "CTD:decreases_expression_of"
AFFECTS_SPLICING == <<67, 84, 68, 58, 97, 102, 102, 101, 99, 116, 115, 95, 115, 112, 108, 105, 99, 105, 110, 103, 95, 111, 102>>
INCREASES_EXPRESSION == <<67, 84, 68, 58, 105, 110, 99, 114, 101, 97, 115, 101, 115, 95, 101, 120, 112, 114, 101, 115, 115, 105, 111, 110, 95, 111, 102>>
DECREASES_EXPRESSION == <<67, 84, 68, 58, 100, 101, 99, 114, 101, 97, 115, 101, 115, 95, 101, 120, 112, 114, 101, 115, 115, 105, 111, 110, 95, 111, 102>>

\* two entries of TISSUES: "Liver" -> "UBERON:0002107", "Muscle_Skeletal" -> "UBERON:0001134"
Liver == <<76, 105, 118, 101, 114>>
Muscle_Skeletal == <<77, 117, 115, 99, 108, 101, 95, 83, 107, 101, 108, 101, 116, 97, 108>>
TISSUES ==
    (Liver :> <<85, 66, 69, 82, 79, 78, 58, 48, 48, 48, 50, 49, 48, 55>>) @@
    (Muscle_Skeletal :> <<85, 66, 69, 82, 79, 78, 58, 48, 48, 48, 49, 49, 51, 52>>)
\* TEST_TISSUES holds "Muscle_Skeletal" and not "Liver"
TEST_TISSUES == (Muscle_Skeletal :> <<85, 66, 69, 82, 79, 78, 58, 48, 48, 48, 49, 49, 51, 52>>)

\* the download paths of the two archives
EQTL_TAR == "GTEx_Analysis_v8_eQTL.tar"
SQTL_TAR == "GTEx_Analysis_v8_sQTL.tar"

\* Raw variant tokens of the input: "chr1_5_T_C_b38", "chr2_7_A_G_b38",
\* "chr1_05_T_C_b38" (the first one with its position written "05"), and two
\* badly formed ones, "chr1_5_T" and "chr1_x_T_C_b38".
RawTokens ==
    {<<99, 104, 114, 49, 95, 53, 95, 84, 95, 67, 95, 98, 51, 56>>,
     <<99, 104, 114, 49, 95, 48, 53, 95, 84, 95, 67, 95, 98, 51, 56>>,
     <<99, 104, 114, 50, 95, 55, 95, 65, 95, 71, 95, 98, 51, 56>>,
     <<99, 104, 114, 49, 95, 53, 95, 84>>,
     <<99, 104, 114, 49, 95, 120, 95, 84, 95, 67, 95, 98, 51, 56>>}

\* Gene columns: "G1.2", "G2.1" in an eQTL file; the phenotype ids
\* "c:1:2:k:G1.2", "c:1:2:k:G2.1" and the short "c:1:G1.2" in an sQTL file.
GeneColumn(gene, sqtl) ==
    IF sqtl THEN <<99, 58, 49, 58, 50, 58, 107, 58>> \o gene ELSE gene
ShortPhenotype == <<99, 58, 49, 58, 71, 49, 46, 50>>

TAB == <<9>>
\* a line of 12 tab-separated fields with the four columns the parser reads
MakeLine(tok, gene, pv, sl) ==
    tok \o TAB \o gene \o TAB \o TAB \o TAB \o TAB \o TAB \o pv \o TAB \o sl
        \o TAB \o TAB \o TAB \o TAB \o <<10>>

\* The rows a tissue file may hold, as (token, gene, p-value, slope): the
\* well formed tokens with slopes "0.5", "-0.3" and "0.0" over the genes
\* "G1.2" and "G2.1", a row with the slope "NA", and one row for each badly
\* formed token; the p-value is "0.1".
Rows ==
    LET tok1 == <<99, 104, 114, 49, 95, 53, 95, 84, 95, 67, 95, 98, 51, 56>>
        tok2 == <<99, 104, 114, 50, 95, 55, 95, 65, 95, 71, 95, 98, 51, 56>>
        g1 == <<71, 49, 46, 50>>
        g2 == <<71, 50, 46, 49>>
        pv == <<48, 46, 49>>
    IN  {<<tok1, g1, pv, <<48, 46, 53>>>>,
         <<tok1, g1, pv, <<45, 48, 46, 51>>>>,
         <<tok2, g1, pv, <<48, 46, 53>>>>,
         <<<<99, 104, 114, 49, 95, 48, 53, 95, 84, 95, 67, 95, 98, 51, 56>>, g1, pv, <<48, 46, 53>>>>,
         <<tok1, g2, pv, <<48, 46, 48>>>>,
         <<tok2, g2, pv, <<78, 65>>>>,
         <<<<99, 104, 114, 49, 95, 53, 95, 84>>, g1, pv, <<48, 46, 53>>>>,
         <<<<99, 104, 114, 49, 95, 120, 95, 84, 95, 67, 95, 98, 51, 56>>, g1, pv, <<48, 46, 53>>>>}

\* the lines a tissue file may hold: the rows as 12-field lines, in an sQTL
\* file also a row whose phenotype id is short, and a line of 11 fields
Lines(sqtl) ==
    {MakeLine(r[1], GeneColumn(r[2], sqtl), r[3], r[4]) : r \in Rows}
    \cup (IF sqtl
          THEN {MakeLine(<<99, 104, 114, 49, 95, 53, 95, 84, 95, 67, 95, 98, 51, 56>>,
                         ShortPhenotype, <<48, 46, 49>>, <<48, 46, 53>>)}
          ELSE {})
    \cup {<<99, 104, 114, 49, 95, 53, 95, 84, 95, 67, 95, 98, 51, 56>> \o TAB
            \o <<71, 49, 46, 50>> \o TAB \o TAB \o TAB \o TAB \o TAB \o <<48, 46, 49>>
            \o TAB \o <<48, 46, 53>> \o TAB \o TAB \o TAB \o <<10>>}

\* The members of an archive, in archive order, by name: "e/Liver.v8.egenes.gz"
\* (no marker), "e/Liver.v8.signif.gz", "e/Bladder.v8.signif.gz" (a tissue of
\* no table) and "e/Muscle_Skeletal.v8.signif.gz".
ArchiveMembers ==
    <<<<101, 47, 76, 105, 118, 101, 114, 46, 118, 56, 46, 101, 103, 101, 110, 101, 115, 46, 103, 122>>,
      <<101, 47, 76, 105, 118, 101, 114, 46, 118, 56, 46, 115, 105, 103, 110, 105, 102, 46, 103, 122>>,
      <<101, 47, 66, 108, 97, 100, 100, 101, 114, 46, 118, 56, 46, 115, 105, 103, 110, 105, 102, 46, 103, 122>>,
      <<101, 47, 77, 117, 115, 99, 108, 101, 95, 83, 107, 101, 108, 101, 116, 97, 108, 46, 118, 56, 46, 115, 105, 103, 110, 105, 102, 46, 103, 122>>>>

\* What convert_variant_to_hgvs may return: nothing, "N1" or "N2".
ConvertResults == {None, <<78, 49>>, <<78, 50>>}

\* What the normalization service may hold for a raw id: nothing, or a list
\* whose first entry is the canonical id (here the raw id followed by "x").
NormalizedLists(raw) == {<<>>, <<raw \o <<120>>, raw>>}

NoEntry == <<>>
NoTuple == <<>>
NoToken == <<>>
NoLine == <<>>

\* ------------------------------------------- the operations on one tuple
\* Each takes the loader's state st (the caches, the accumulator, the sink's
\* node counts, the convert calls made, load's two locals) and gives the state
\* it leaves; st.raised names the exception it raised, "" if none.

\* line 208 taken for a miss whatever the lookup holds
AlwaysMiss(tok, lookup) == TRUE

\* line 208: the token is not in the lookup yet
CacheMiss(tok, lookup) == tok \notin DOMAIN lookup

\* lines 212-217: the exception that splitting the token raises, "" if none
TokenError(tok) ==
    LET variant_data == Split(SubSeq(tok, 4, Len(tok)), <<95>>)
    IN  IF Len(variant_data) < 2 THEN "IndexError"
        ELSE IF ~IntOk(variant_data[2]) THEN "ValueError"
        ELSE IF Len(variant_data) < 5 THEN "IndexError"
        ELSE ""

\* line 236 run only for a conversion that succeeded
StoreSuccessOnly(lookup, tok, id) == IF Truthy(id) THEN (tok :> id) @@ lookup ELSE lookup

\* lines 228 and 236: self.gtex_variant_to_hgvs_lookup[gtex_variant_id] = variant_id
StoreResult(lookup, tok, id) == (tok :> id) @@ lookup

\* line 235 left out
FailureForgotten(failed, tok) == failed

\* line 235: self.variants_that_failed_hgvs_conversion.add(gtex_variant_id)
FailureRecorded(failed, tok) == failed \cup {tok}

\* process_variant (lines 204-242); hgvs is what convert_variant_to_hgvs
\* returns if it is called
process_variant(tok, hgvs, st) ==
    IF ~CacheMiss(tok, st.lookup)
    THEN [st EXCEPT !.gtex_variant = tok, !.variant_id = st.lookup[tok]]
    ELSE IF TokenError(tok) # ""
    THEN [st EXCEPT !.gtex_variant = tok, !.raised = TokenError(tok)]
    ELSE IF Truthy(hgvs)
    THEN [st EXCEPT !.gtex_variant = tok,
                    !.calls = [@ EXCEPT ![tok] = @ + 1],
                    !.lookup = StoreResult(@, tok, HGVS \o COLON \o hgvs),
                    !.nodes = BagAdd(@, HGVS \o COLON \o hgvs),
                    !.variant_id = HGVS \o COLON \o hgvs]
    ELSE [st EXCEPT !.gtex_variant = tok,
                    !.calls = [@ EXCEPT ![tok] = @ + 1],
                    !.failed = FailureRecorded(@, tok),
                    !.lookup = StoreResult(@, tok, None),
                    !.variant_id = None]

\* line 256 left out
GenesUnmarked(genes, id) == genes

\* line 256: self.written_genes.add(gtex_gene_id)
GenesMarked(genes, id) == genes \cup {id}

\* process_gene (lines 246-257)
process_gene(gtex_gene_id, st) ==
    IF gtex_gene_id \in st.genes THEN st
    ELSE IF Len(Split(gtex_gene_id, COLON)) < 2
    THEN [st EXCEPT !.raised = "IndexError"]
    ELSE [st EXCEPT !.nodes = BagAdd(@, gtex_gene_id),
                    !.genes = GenesMarked(@, gtex_gene_id)]

\* lines 266-271 with >= for >
EdgePredicateZeroIncreases(slope, sqtl) ==
    IF sqtl THEN AFFECTS_SPLICING
    ELSE IF FloatValue(slope) >= 0 THEN INCREASES_EXPRESSION
    ELSE DECREASES_EXPRESSION

\* lines 266-271: the predicate of an edge record
EdgePredicate(slope, sqtl) ==
    IF sqtl THEN AFFECTS_SPLICING
    ELSE IF FloatValue(slope) > 0 THEN INCREASES_EXPRESSION
    ELSE DECREASES_EXPRESSION

\* create_edge (lines 259-278); float() of a text that is no number raises
\* ValueError and nothing is appended
create_edge(anatomy, subject, gene_id, p_value, slope, sqtl, st) ==
    IF FloatOk(slope) /\ FloatOk(p_value)
    THEN [st EXCEPT !.edge_list =
              Append(@, [subject      |-> subject,
                         object       |-> gene_id,
                         predicate    |-> EdgePredicate(slope, sqtl),
                         expressed_in |-> anatomy,
                         p_value      |-> FloatValue(p_value),
                         slope        |-> FloatValue(slope)])]
    ELSE [st EXCEPT !.raised = "ValueError"]

\* line 156 taken for true whatever the id
AlwaysResolved(id) == TRUE

\* `if variant_id:` at lines 156 and 175
Resolved(id) == Truthy(id)

\* the body of load's loop for one tuple (lines 153-159 and 172-178)
LoopBody(tuple, hgvs, sqtl, st) ==
    LET s1 == process_variant(tuple[2], hgvs, st)
        s2 == process_gene(tuple[3], s1)
    IN  IF s1.raised # "" \/ ~Resolved(s1.variant_id) THEN s1
        ELSE IF s2.raised # "" THEN s2
        ELSE create_edge(tuple[1], s2.variant_id, tuple[3], tuple[4], tuple[5], sqtl, s2)

\* ------------------------------------------------------------ load()

\* the variables in groups, for the actions that leave them alone
run == <<test_mode, anatomy_id_lookup, node_normalization_lookup>>
caches == <<gtex_variant_to_hgvs_lookup, variants_that_failed_hgvs_conversion, written_genes>>
parser == <<members_read, handles_opened, anatomy_id, yielded, line>>
locals == <<gtex_variant, variant_id>>
calls == <<convert_calls, nodes_written>>

\* the state __init__ leaves (lines 89-114)
Constructed(mode) ==
    /\ test_mode = mode
    /\ anatomy_id_lookup = IF mode THEN TEST_TISSUES ELSE TISSUES
    /\ gtex_variant_to_hgvs_lookup = <<>>
    /\ variants_that_failed_hgvs_conversion = {}
    /\ written_genes = {}
    /\ edge_list = <<>>

\* nothing parsed, converted or written yet
Untouched ==
    /\ is_sqtl = FALSE
    /\ node_normalization_lookup = <<>>
    /\ members_read = 0
    /\ handles_opened = {}
    /\ line = NoLine
    /\ anatomy_id = NoEntry
    /\ gtex_variant = NoToken
    /\ variant_id = None
    /\ yielded = 0
    /\ convert_calls = [t \in RawTokens |-> 0]
    /\ nodes_written = <<>>
    /\ edges_written = <<>>
    /\ raised = ""

\* a run in test mode downloads nothing: it finds the archives staged, or not
Init ==
    /\ \E mode \in BOOLEAN : Constructed(mode)
    /\ Untouched
    /\ pc = "load"
    /\ files \in IF test_mode THEN {{}, {EQTL_TAR, SQTL_TAR}} ELSE {{}}

\* what the normalization service may answer for the ids of a table
Answers(lookup) ==
    {answer \in [Range(lookup) -> UNION {NormalizedLists(r) : r \in Range(lookup)}] :
        \A r \in Range(lookup) : answer[r] \in NormalizedLists(r)}

\* the last id of the list taken
LastId(normalized_ids) == normalized_ids[Len(normalized_ids)]

\* line 438: real_anatomy_id = normalized_ids[0]
CanonicalId(normalized_ids) == normalized_ids[1]

\* normalize_anatomy_ids (lines 431-441), called at line 122 before the try
\* block: the service answers for every id and the table takes the first id
\* of each list that is not empty, or the call to the service raises, which
\* ends load there
NormalizeAnatomyIds ==
    /\ pc = "load"
    /\ \/ /\ \E answer \in Answers(anatomy_id_lookup) :
               /\ node_normalization_lookup' = answer
               /\ anatomy_id_lookup' =
                      [label \in DOMAIN anatomy_id_lookup |->
                          IF answer[anatomy_id_lookup[label]] # <<>>
                          THEN CanonicalId(answer[anatomy_id_lookup[label]])
                          ELSE anatomy_id_lookup[label]]
          /\ pc' = "fetch_eqtl"
          /\ UNCHANGED raised
       \/ /\ raised' = "ConnectionError"
          /\ pc' = "exited"
          /\ UNCHANGED <<anatomy_id_lookup, node_normalization_lookup>>
    /\ UNCHANGED <<test_mode, is_sqtl, files, caches, edge_list, parser, locals, calls,
                   edges_written>>

\* fetch_and_save_tar (lines 445-461) unless in test mode: the archive is saved,
\* or the download fails before or after the file was created
Fetch(path, next) ==
    /\ \/ /\ test_mode
          /\ pc' = next
          /\ UNCHANGED <<files, raised>>
       \/ /\ ~test_mode
          /\ files' = files \cup {path}
          /\ pc' = next
          /\ UNCHANGED raised
       \/ /\ ~test_mode
          /\ files' \in {files, files \cup {path}}
          /\ raised' = "URLError"
          /\ pc' = "except"
    /\ UNCHANGED <<run, is_sqtl, caches, edge_list, parser, locals, calls, edges_written>>

\* lines 139-140
FetchEqtl == pc = "fetch_eqtl" /\ Fetch(EQTL_TAR, "fetch_sqtl")
\* lines 144-145
FetchSqtl == pc = "fetch_sqtl" /\ Fetch(SQTL_TAR, "open")

\* tarfile.open(full_tar_path, 'r:') at line 290, when the loop first asks for a tuple
OpenArchive ==
    /\ pc = "open"
    /\ IF (IF is_sqtl THEN SQTL_TAR ELSE EQTL_TAR) \in files
       THEN pc' = "parse" /\ UNCHANGED raised
       ELSE pc' = "except" /\ raised' = "FileNotFoundError"
    /\ members_read' = 0
    /\ handles_opened' = {}
    /\ UNCHANGED <<run, is_sqtl, files, caches, edge_list, anatomy_id, yielded, line,
                   locals, calls, edges_written>>

\* the marker 'signif' of line 299
SIGNIF == <<115, 105, 103, 110, 105, 102>>

\* the tissue name of an archive member (line 303)
TissueName(name) == Split(Split(name, <<47>>)[2], <<46>>)[1]

\* line 306 left out: a member of an unknown tissue is read under its name
EntryAnatomyByName(name, lookup) ==
    IF ~Contains(name, SIGNIF) THEN NoEntry
    ELSE IF TissueName(name) \in DOMAIN lookup THEN lookup[TissueName(name)]
    ELSE TissueName(name)

\* line 309 reading the table as it was defined at lines 20-69
EntryAnatomyRaw(name, lookup) ==
    IF Contains(name, SIGNIF) /\ TissueName(name) \in DOMAIN lookup
    THEN TISSUES[TissueName(name)]
    ELSE NoEntry

\* lines 299-309: the anatomy id of a member that is read, NoEntry for one
\* without the marker or of an unknown tissue
EntryAnatomy(name, lookup) ==
    IF Contains(name, SIGNIF) /\ TissueName(name) \in DOMAIN lookup
    THEN lookup[TissueName(name)]
    ELSE NoEntry

\* lines 292-314 and 354-355: the next member of the archive; extractfile is
\* called on it (line 294), then a member with the marker and a known tissue
\* is read, any other is passed over
NextEntry ==
    /\ pc = "parse"
    /\ anatomy_id = NoEntry
    /\ members_read < Len(ArchiveMembers)
    /\ members_read' = members_read + 1
    /\ handles_opened' = handles_opened \cup {members_read + 1}
    /\ anatomy_id' = EntryAnatomy(ArchiveMembers[members_read + 1], anatomy_id_lookup)
    /\ UNCHANGED <<pc, run, is_sqtl, files, caches, edge_list, yielded, line, locals,
                   calls, edges_written, raised>>

\* lines 326-343 on a 12-field line: an "IndexError", or the tuple to yield
Extract(line_split, sqtl, anatomy) ==
    LET gene_column == line_split[2]
        phenotype == Split(gene_column, COLON)
    IN  IF sqtl /\ Len(phenotype) < 5
        THEN [raised |-> "IndexError", tuple |-> NoTuple]
        ELSE [raised |-> "",
              tuple  |-> <<anatomy,
                           line_split[1],
                           ENSEMBL_PREFIX \o
                               Split(IF sqtl THEN phenotype[5] ELSE gene_column, <<46>>)[1],
                           line_split[7],
                           line_split[8]>>]

\* lines 212-218: the arguments of the conversion call made for a token
ConvertArgs(tok) ==
    LET variant_data == Split(SubSeq(tok, 4, Len(tok)), <<95>>)
    IN  <<variant_data[1], DigitsValue(variant_data[2]), variant_data[3], variant_data[4],
          variant_data[5]>>

\* what convert_variant_to_hgvs returned for a token of the lookup
ConvertedTo(tok, lookup) ==
    IF Truthy(lookup[tok]) THEN SubSeq(lookup[tok], Len(HGVS) + 2, Len(lookup[tok])) ELSE None

\* what the call at lines 219-224 may return for the token: what it returned
\* before for the same arguments, else any result; None where process_variant
\* does not reach the call
ConvertOutcomes(tok, lookup) ==
    IF CacheMiss(tok, lookup) /\ TokenError(tok) = ""
    THEN LET same == {t \in DOMAIN lookup : ConvertArgs(t) = ConvertArgs(tok)}
         IN  IF same # {} THEN {ConvertedTo(t, lookup) : t \in same} ELSE ConvertResults
    ELSE {None}

\* the loader as the operations on one tuple take it
LoaderState ==
    [raised       |-> "",
     lookup       |-> gtex_variant_to_hgvs_lookup,
     failed       |-> variants_that_failed_hgvs_conversion,
     genes        |-> written_genes,
     edge_list    |-> edge_list,
     calls        |-> convert_calls,
     nodes        |-> nodes_written,
     gtex_variant |-> gtex_variant,
     variant_id   |-> variant_id]

\* line 323 left out: a line of any width is taken
AnyWidth(line_split) == TRUE

\* the column check of line 323 passes
WidthOk(line_split) == Len(line_split) = 12

\* lines 317-352 and the loop body of load (lines 153-159 or 172-178): the
\* next line of the open tissue file; a line of another width is logged and
\* dropped, a tuple that is yielded is processed before the next line is read
ReadLine ==
    /\ pc = "parse"
    /\ anatomy_id # NoEntry
    /\ yielded < MaxTuples
    /\ \E l \in Lines(is_sqtl) :
         LET line_split == Split(l, TAB)
             x == Extract(line_split, is_sqtl, anatomy_id)
         IN  /\ line' = l
             /\ IF ~WidthOk(line_split)
                THEN UNCHANGED <<pc, yielded, raised, caches, edge_list, locals, calls>>
                ELSE IF x.raised # ""
                THEN /\ raised' = x.raised
                     /\ pc' = "except"
                     /\ UNCHANGED <<yielded, caches, edge_list, locals, calls>>
                ELSE \E hgvs \in ConvertOutcomes(x.tuple[2], gtex_variant_to_hgvs_lookup) :
                       LET r == LoopBody(x.tuple, hgvs, is_sqtl, LoaderState)
                       IN  /\ yielded' = yielded + 1
                           /\ raised' = r.raised
                           /\ pc' = IF r.raised # "" THEN "except" ELSE "parse"
                           /\ gtex_variant_to_hgvs_lookup' = r.lookup
                           /\ variants_that_failed_hgvs_conversion' = r.failed
                           /\ written_genes' = r.genes
                           /\ edge_list' = r.edge_list
                           /\ convert_calls' = r.calls
                           /\ nodes_written' = r.nodes
                           /\ gtex_variant' = r.gtex_variant
                           /\ variant_id' = r.variant_id
    /\ UNCHANGED <<run, is_sqtl, files, members_read, handles_opened, anatomy_id,
                   edges_written>>

\* the open tissue file is at its end: back to the loop over the members
EndOfEntry ==
    /\ pc = "parse"
    /\ anatomy_id # NoEntry
    /\ anatomy_id' = NoEntry
    /\ line' = NoLine
    /\ UNCHANGED <<pc, run, is_sqtl, files, caches, edge_list, members_read,
                   handles_opened, yielded, locals, calls, edges_written, raised>>

\* the archive has no further member: the for loop of load ends (lines 151, 169)
EndOfArchive ==
    /\ pc = "parse"
    /\ anatomy_id = NoEntry
    /\ members_read = Len(ArchiveMembers)
    /\ pc' = "merge"
    /\ UNCHANGED <<run, is_sqtl, files, caches, edge_list, parser, locals, calls,
                   edges_written, raised>>

\* line 166 or 184 left out
Uncleared(l) == l

\* self.edge_list.clear() at lines 166 and 184
Cleared(l) == <<>>

\* lines 165-166 and 183-184: the edges are coalesced and written, the
\* accumulator is cleared; then the sQTL pass, or the end of the try block
MergeAndClear ==
    /\ pc = "merge"
    /\ LET r == CoalesceResult(edge_list)
       IN  IF r.raised # ""
           THEN /\ raised' = r.raised
                /\ pc' = "except"
                /\ edge_list' = r.edge_list
                /\ UNCHANGED <<edges_written, is_sqtl>>
           ELSE /\ edges_written' = edges_written \o r.written
                /\ edge_list' = Cleared(r.edge_list)
                /\ is_sqtl' = TRUE
                /\ pc' = IF is_sqtl THEN "finally" ELSE "open"
                /\ UNCHANGED raised
    /\ UNCHANGED <<run, files, caches, parser, locals, calls>>

\* `raise e`, the line commented out at line 190
Reraised(e) == e

\* line 192: raise SourceDataFailedError(e)
Wrapped(e) == "SourceDataFailedError"

\* lines 188-192: the exception is logged and raised again as SourceDataFailedError
ExceptClause ==
    /\ pc = "except"
    /\ raised' = Wrapped(raised)
    /\ pc' = "finally"
    /\ UNCHANGED <<run, is_sqtl, files, caches, edge_list, parser, locals, calls,
                   edges_written>>

\* lines 194-199: the archive files that exist are removed, and load is left
Finally ==
    /\ pc = "finally"
    /\ files' = files \ {EQTL_TAR, SQTL_TAR}
    /\ pc' = "exited"
    /\ UNCHANGED <<run, is_sqtl, caches, edge_list, parser, locals, calls, edges_written,
                   raised>>

Next ==
    \/ NormalizeAnatomyIds
    \/ FetchEqtl
    \/ FetchSqtl
    \/ OpenArchive
    \/ NextEntry
    \/ ReadLine
    \/ EndOfEntry
    \/ EndOfArchive
    \/ MergeAndClear
    \/ ExceptClause
    \/ Finally

Spec == Init /\ [][Next]_vars

\* ------------------------------------------- the coalescing specification

\* ids and observations the accumulator is drawn from: "A" and "AB", "A" and
\* "BA", "A" and "B" for subject, predicate and object; two observations.
HSubjects == {<<65>>, <<65, 66>>}
HPredicates == {<<65>>, <<66, 65>>}
HObjects == {<<65>>, <<66>>}
HObservations == {[expressed_in |-> <<88>>, p_value |-> 1, slope |-> 5],
                  [expressed_in |-> <<89>>, p_value |-> 2, slope |-> -3]}

HRecords ==
    {[subject |-> s, object |-> o, predicate |-> p,
      expressed_in |-> ob.expressed_in, p_value |-> ob.p_value, slope |-> ob.slope] :
        s \in HSubjects, o \in HObjects, p \in HPredicates, ob \in HObservations}

SeqsUpTo(S, n) == UNION {[1..k -> S] : k \in 0..n}

\* a loader whose accumulator holds any records, about to coalesce them
InitCoalesce ==
    /\ test_mode = FALSE
    /\ anatomy_id_lookup = TISSUES
    /\ gtex_variant_to_hgvs_lookup = <<>>
    /\ variants_that_failed_hgvs_conversion = {}
    /\ written_genes = {}
    /\ Untouched
    /\ pc = "accumulated"
    /\ files = {}
    /\ edge_list \in SeqsUpTo(HRecords, MaxLen)

\* one call of coalesce_and_write_edges (lines 357-427)
CoalesceCall ==
    /\ pc = "accumulated"
    /\ LET r == CoalesceResult(edge_list)
       IN  /\ edge_list' = r.edge_list
           /\ edges_written' = edges_written \o r.written
           /\ raised' = r.raised
           /\ pc' = IF r.raised = "" THEN "coalesced" ELSE "failed"
    /\ UNCHANGED <<run, is_sqtl, files, caches, parser, locals, calls>>

NextCoalesce == CoalesceCall

SpecCoalesce == InitCoalesce /\ [][NextCoalesce]_vars

\* ------------------------------------------------------------- claims

Triple(r) == <<r.subject, r.predicate, r.object>>

\* the observations of a written edge, position by position
ObsSeq(e) ==
    [i \in 1..Len(e.expressed_in) |-> <<e.expressed_in[i], e.p_value[i], e.slope[i]>>]

\* the multiset of a sequence's elements
BagOf(s) == [x \in Range(s) |-> Cardinality({i \in DOMAIN s : s[i] = x})]

\* C1: after coalesce_and_write_edges on any accumulator, every distinct
\* (subject, predicate, object) triple of the accumulator has exactly one
\* written edge, and that edge holds the records of that triple only.
C1_OneEdgePerTriple ==
    pc = "coalesced" =>
        LET triples == {Triple(edge_list[i]) : i \in DOMAIN edge_list}
        IN  /\ Len(edges_written) = Cardinality(triples)
            /\ \A t \in triples :
                 /\ Cardinality({j \in DOMAIN edges_written :
                                    Triple(edges_written[j]) = t}) = 1
                 /\ \A j \in DOMAIN edges_written :
                      Triple(edges_written[j]) = t =>
                          Len(edges_written[j].expressed_in) =
                              Cardinality({i \in DOMAIN edge_list : Triple(edge_list[i]) = t})

\* C2: every written edge has three arrays of one length, and the values at
\* each position are the anatomy id, p-value and slope of one accumulator record.
C2_ArraysAligned ==
    \A j \in DOMAIN edges_written :
        LET e == edges_written[j]
        IN  /\ Len(e.expressed_in) = Len(e.p_value)
            /\ Len(e.p_value) = Len(e.slope)
            /\ \A i \in 1..Len(e.expressed_in) :
                 \E k \in DOMAIN edge_list :
                     /\ edge_list[k].expressed_in = e.expressed_in[i]
                     /\ edge_list[k].p_value = e.p_value[i]
                     /\ edge_list[k].slope = e.slope[i]

\* a call wrote two edges, one of them merging two different observations
C2_Witness ==
    /\ pc = "coalesced"
    /\ Len(edges_written) >= 2
    /\ \E j \in DOMAIN edges_written :
         /\ Len(edges_written[j].expressed_in) >= 2
         /\ edges_written[j].expressed_in[1] # edges_written[j].expressed_in[2]

\* a step of load's loop that processes one yielded tuple
TupleStep == yielded' = yielded + 1

\* the ids a variant node can carry, and the ids a gene node can carry
VariantIds == {HGVS \o COLON \o h : h \in ConvertResults \ {None}}
GeneIds == {ENSEMBL_PREFIX \o Split(r[2], <<46>>)[1] : r \in Rows}

\* C3: convert_variant_to_hgvs is called at most once for a raw token in a
\* run, whether it succeeded or failed, across both passes; what the first
\* call stored for a token never changes, and every call returns what is
\* stored for its token.
C3_ConvertedOnce ==
    /\ [](/\ \A t \in RawTokens : convert_calls[t] <= 1
          /\ \A t \in DOMAIN gtex_variant_to_hgvs_lookup : convert_calls[t] = 1
          /\ gtex_variant \in DOMAIN gtex_variant_to_hgvs_lookup =>
                 variant_id = gtex_variant_to_hgvs_lookup[gtex_variant])
    /\ [][\A t \in DOMAIN gtex_variant_to_hgvs_lookup :
             /\ t \in DOMAIN gtex_variant_to_hgvs_lookup'
             /\ gtex_variant_to_hgvs_lookup'[t] = gtex_variant_to_hgvs_lookup[t]
             /\ convert_calls'[t] = convert_calls[t]]_vars

\* one token resolved in the eQTL pass and met again in the sQTL pass
C3_Witness ==
    /\ is_sqtl
    /\ Len(edges_written) = 1
    /\ Len(edge_list) = 1
    /\ \E t \in RawTokens :
         /\ DOMAIN gtex_variant_to_hgvs_lookup = {t}
         /\ Truthy(gtex_variant_to_hgvs_lookup[t])
         /\ convert_calls[t] = 1

\* C4: a token whose conversion succeeds has its variant node written once,
\* in the step of the call that first resolves it: the sink holds as many
\* nodes of a variant id as there are tokens resolved to it, and a call with
\* a token resolved before writes no variant node.
C4_VariantNodeOnce ==
    /\ [](\A id \in VariantIds :
             BagCount(nodes_written, id) =
                 Cardinality({t \in DOMAIN gtex_variant_to_hgvs_lookup :
                                 gtex_variant_to_hgvs_lookup[t] = id}))
    /\ [][(TupleStep /\ gtex_variant' \in DOMAIN gtex_variant_to_hgvs_lookup) =>
             \A id \in VariantIds : BagCount(nodes_written', id) = BagCount(nodes_written, id)]_vars

\* the one resolved token was processed twice and has one node
C4_Witness ==
    /\ yielded = 2
    /\ Len(edge_list) = 2
    /\ \E t \in RawTokens :
         /\ DOMAIN gtex_variant_to_hgvs_lookup = {t}
         /\ Truthy(gtex_variant_to_hgvs_lookup[t])
         /\ BagCount(nodes_written, gtex_variant_to_hgvs_lookup[t]) = 1

\* C5: a gene node is written once per gene id, on the first call with it,
\* whichever pass or tissue file the calls come from; a call with an id
\* written before writes nothing and changes no state.
C5_GeneNodeOnce ==
    /\ \A g \in GeneIds : BagCount(nodes_written, g) = IF g \in written_genes THEN 1 ELSE 0
    /\ written_genes \subseteq GeneIds
    /\ \A g \in written_genes : process_gene(g, LoaderState) = LoaderState

\* a gene of an edge of the eQTL pass met again in the sQTL pass
C5_Witness ==
    /\ is_sqtl
    /\ Len(edges_written) >= 1
    /\ Len(edge_list) >= 1
    /\ edge_list[1].object = edges_written[1].object
    /\ BagCount(nodes_written, edge_list[1].object) = 1

\* C6: a token whose conversion fails resolves to no id at every call, is in
\* the negative cache and is converted once; no call with it writes a node or
\* appends an edge record, and no node or edge record carries an empty id.
C6_FailedTokenInert ==
    /\ [](/\ \A t \in DOMAIN gtex_variant_to_hgvs_lookup :
               ~Truthy(gtex_variant_to_hgvs_lookup[t]) <=>
                   t \in variants_that_failed_hgvs_conversion
          /\ \A t \in variants_that_failed_hgvs_conversion :
               /\ t \in DOMAIN gtex_variant_to_hgvs_lookup
               /\ convert_calls[t] = 1
          /\ BagCount(nodes_written, None) = 0
          /\ BagCount(nodes_written, HGVS \o COLON) = 0
          /\ \A i \in DOMAIN edge_list : Truthy(edge_list[i].subject)
          /\ \A j \in DOMAIN edges_written : Truthy(edges_written[j].subject))
    /\ [][/\ variants_that_failed_hgvs_conversion \subseteq
                variants_that_failed_hgvs_conversion'
          /\ (TupleStep /\ gtex_variant' \in variants_that_failed_hgvs_conversion') =>
                /\ variant_id' = None
                /\ UNCHANGED <<nodes_written, edge_list, edges_written>>]_vars

\* the one token failed conversion and was met twice
C6_Witness ==
    /\ yielded = 2
    /\ pc = "parse"
    /\ edge_list = <<>>
    /\ \E t \in RawTokens :
         /\ DOMAIN gtex_variant_to_hgvs_lookup = {t}
         /\ variants_that_failed_hgvs_conversion = {t}
         /\ gtex_variant = t

\* C7: a tuple whose variant resolves to no id leaves the gene set, the sink
\* and the accumulator as they were; a gene gets a node only when some
\* variant was resolved.
C7_UnresolvedTupleDropped ==
    /\ [][(TupleStep /\ raised' = "" /\ ~Truthy(variant_id')) =>
             UNCHANGED <<written_genes, nodes_written, edge_list, edges_written>>]_vars
    /\ [](written_genes # {} =>
             \E t \in DOMAIN gtex_variant_to_hgvs_lookup :
                 Truthy(gtex_variant_to_hgvs_lookup[t]))

\* after a resolved tuple, a tuple with a failed token was dropped
C7_Witness ==
    /\ yielded = 2
    /\ pc = "parse"
    /\ Len(edge_list) = 1
    /\ Cardinality(written_genes) = 1
    /\ gtex_variant \in variants_that_failed_hgvs_conversion
    /\ variant_id = None

\* C8: an edge record of the sQTL pass has the affects-splicing predicate
\* whatever its slope; one of the eQTL pass has increases-expression exactly
\* when its slope is above zero, and decreases-expression otherwise.
C8_PredicateBySlope ==
    \A i \in DOMAIN edge_list :
        LET r == edge_list[i]
        IN  IF is_sqtl
            THEN r.predicate = AFFECTS_SPLICING
            ELSE /\ r.slope > 0 <=> r.predicate = INCREASES_EXPRESSION
                 /\ r.slope <= 0 <=> r.predicate = DECREASES_EXPRESSION

\* the eQTL accumulator holds a record of slope zero and one of a slope above
C8_Witness ==
    /\ ~is_sqtl
    /\ \E i \in DOMAIN edge_list : edge_list[i].slope = 0
    /\ \E i \in DOMAIN edge_list : edge_list[i].slope > 0

\* C9: the accumulator is empty when the sQTL pass starts and when load
\* finishes normally, and in the sQTL pass it holds records of that pass only.
C9_AccumulatorCleared ==
    /\ (pc = "open" /\ is_sqtl) => edge_list = <<>>
    /\ (pc \in {"finally", "exited"} /\ raised = "") => edge_list = <<>>
    /\ is_sqtl => \A i \in DOMAIN edge_list : edge_list[i].predicate = AFFECTS_SPLICING

\* load finished normally after writing an edge in each pass
C9_Witness ==
    /\ pc = "exited"
    /\ raised = ""
    /\ Len(edges_written) = 2
    /\ edges_written[1].predicate # AFFECTS_SPLICING
    /\ edges_written[2].predicate = AFFECTS_SPLICING

\* the observation of an accumulator record
Obs(r) == <<r.expressed_in, r.p_value, r.slope>>

\* the edges a step has written
NewEdges == SubSeq(edges_written', Len(edges_written) + 1, Len(edges_written'))

\* the observations of the records of acc that have the triple t, in acc's order
ObsOfTriple(acc, t) ==
    LET HasTriple(r) == Triple(r) = t
        recs == SelectSeq(acc, HasTriple)
    IN  [i \in DOMAIN recs |-> Obs(recs[i])]

\* out keeps, edge by edge, the order that acc has among records of one triple
KeepsAppendOrder(acc, out) ==
    /\ \A j \in DOMAIN out :
         (\A i \in DOMAIN acc : GroupKey(acc[i]) = GroupKey(out[j]) =>
                                    Triple(acc[i]) = Triple(out[j]))
             => ObsSeq(out[j]) = ObsOfTriple(acc, Triple(out[j]))
    /\ \A i, k \in DOMAIN acc :
         (i < k /\ Triple(acc[i]) = Triple(acc[k])) =>
             \E j \in DOMAIN out : \E a, b \in DOMAIN out[j].expressed_in :
                 /\ a < b
                 /\ ObsSeq(out[j])[a] = Obs(acc[i])
                 /\ ObsSeq(out[j])[b] = Obs(acc[k])

\* C11: in every coalesced edge the observations stand in the order in which
\* their records were appended to the accumulator, and records are appended
\* at the end, tissue files in archive-member order.
C11_AppendOrderKept ==
    /\ [][(pc = "merge" /\ raised' = "") => KeepsAppendOrder(edge_list, NewEdges)]_vars
    /\ [][TupleStep =>
             \/ edge_list' = edge_list
             \/ /\ Len(edge_list') = Len(edge_list) + 1
                /\ SubSeq(edge_list', 1, Len(edge_list)) = edge_list]_vars
    /\ [](\A i, k \in DOMAIN edge_list :
             i < k =>
                 \E m1, m2 \in DOMAIN ArchiveMembers :
                     /\ m1 <= m2
                     /\ edge_list[i].expressed_in =
                            EntryAnatomy(ArchiveMembers[m1], anatomy_id_lookup)
                     /\ edge_list[k].expressed_in =
                            EntryAnatomy(ArchiveMembers[m2], anatomy_id_lookup))

\* an edge was written with the observation of an earlier tissue file before
\* that of a later one
C11_Witness ==
    \E j \in DOMAIN edges_written :
        /\ Len(edges_written[j].expressed_in) = 2
        /\ edges_written[j].expressed_in[1] = EntryAnatomy(ArchiveMembers[2], anatomy_id_lookup)
        /\ edges_written[j].expressed_in[2] = EntryAnatomy(ArchiveMembers[4], anatomy_id_lookup)
        /\ edges_written[j].expressed_in[1] # edges_written[j].expressed_in[2]

\* a step of the parser that reads the line line' from the open tissue file
LineStep == pc = "parse" /\ anatomy_id # NoEntry /\ line' # NoLine

\* everything but the parser's line
AllButLine ==
    <<pc, test_mode, is_sqtl, files, anatomy_id_lookup, node_normalization_lookup,
      gtex_variant_to_hgvs_lookup, variants_that_failed_hgvs_conversion, written_genes, edge_list, members_read,
      handles_opened, anatomy_id, gtex_variant, variant_id, yielded, convert_calls,
      nodes_written, edges_written, raised>>

\* C12: a 12-field line from which a field cannot be extracted is discarded
\* as a row-level skip: reading it yields no tuple, raises nothing, and the
\* parser goes on with the file.
C12_ExtractionFailureSkipped ==
    [][(/\ LineStep
        /\ WidthOk(Split(line', TAB))
        /\ Extract(Split(line', TAB), is_sqtl, anatomy_id).raised # "")
           => (yielded' = yielded /\ raised' = "" /\ pc' = "parse")]_vars

\* C13: a line whose field count is not 12 yields no tuple and raises nothing;
\* it leaves the loader and the parser as they were, so the lines after it
\* in the file are read as before and a 12-field line among them still
\* yields its tuple.
C13_BadWidthDropped ==
    /\ [][(LineStep /\ Len(Split(line', TAB)) # 12) => UNCHANGED AllButLine]_vars
    /\ [][(/\ LineStep
           /\ line # NoLine
           /\ Len(Split(line, TAB)) # 12
           /\ Len(Split(line', TAB)) = 12
           /\ Extract(Split(line', TAB), is_sqtl, anatomy_id).raised = "")
              => (TupleStep /\ gtex_variant' = Split(line', TAB)[1])]_vars

\* after a tuple was yielded, a line of 11 fields was read and dropped
C13_Witness ==
    /\ pc = "parse"
    /\ line # NoLine
    /\ Len(Split(line, TAB)) = 11
    /\ yielded = 1
    /\ Len(edge_list) = 1

\* the anatomy ids that the edges written and the accumulator carry
AnatomyIdsUsed ==
    {edge_list[i].expressed_in : i \in DOMAIN edge_list}
    \cup UNION {Range(edges_written[j].expressed_in) : j \in DOMAIN edges_written}

\* a step of the parser that takes the next member of the archive
MemberStep == pc = "parse" /\ members_read' = members_read + 1

\* C14: a member with the marker whose tissue name is no key of the anatomy
\* table is passed over: no line of it is read, so it yields no tuple and
\* adds no node and no observation; the members after it are still taken.
C14_UnknownTissueSkipped ==
    /\ [][(/\ MemberStep
           /\ Contains(ArchiveMembers[members_read'], SIGNIF)
           /\ TissueName(ArchiveMembers[members_read']) \notin DOMAIN anatomy_id_lookup)
              => /\ anatomy_id' = NoEntry
                 /\ pc' = "parse"
                 /\ UNCHANGED <<yielded, nodes_written, edge_list, edges_written, raised>>]_vars
    /\ [](anatomy_id # NoEntry =>
             /\ members_read >= 1
             /\ TissueName(ArchiveMembers[members_read]) \in DOMAIN anatomy_id_lookup)
    /\ [](\A id \in AnatomyIdsUsed :
             \E label \in DOMAIN anatomy_id_lookup : id = anatomy_id_lookup[label])

\* the member after the one of the unknown tissue was read and gave a record
C14_Witness ==
    /\ members_read = 4
    /\ TissueName(ArchiveMembers[3]) \notin DOMAIN anatomy_id_lookup
    /\ Contains(ArchiveMembers[3], SIGNIF)
    /\ anatomy_id = anatomy_id_lookup[TissueName(ArchiveMembers[4])]
    /\ Len(edge_list) >= 1
    /\ edge_list[Len(edge_list)].expressed_in = anatomy_id

\* C15: normalize_anatomy_ids keeps the labels of the table; a label whose
\* raw id the service answered with a list that is not empty maps to the
\* first id of that list, a label it answered with nothing keeps its raw id,
\* and load goes on.
C15_FirstIdOrRaw ==
    [][(pc = "load" /\ raised' = "") =>
          /\ pc' = "fetch_eqtl"
          /\ DOMAIN anatomy_id_lookup' = DOMAIN anatomy_id_lookup
          /\ \A label \in DOMAIN anatomy_id_lookup :
               LET raw == anatomy_id_lookup[label]
                   normalized_ids == node_normalization_lookup'[raw]
               IN  anatomy_id_lookup'[label] =
                       IF normalized_ids # <<>> THEN normalized_ids[1] ELSE raw]_vars

\* one label was normalized and another kept its raw id, and tuples were read
C15_Witness ==
    /\ yielded >= 1
    /\ \E l1, l2 \in DOMAIN anatomy_id_lookup :
         /\ node_normalization_lookup[TISSUES[l1]] = <<>>
         /\ anatomy_id_lookup[l1] = TISSUES[l1]
         /\ node_normalization_lookup[TISSUES[l2]] # <<>>
         /\ anatomy_id_lookup[l2] = node_normalization_lookup[TISSUES[l2]][1]
         /\ anatomy_id_lookup[l2] # TISSUES[l2]

\* C16: normalization is over before the first member of an archive is
\* taken; no later step changes the table; every anatomy id of an edge
\* record is the table's value for the tissue of a member that was read.
C16_TableFixedBeforeParsing ==
    /\ [](pc = "load" =>
             /\ members_read = 0
             /\ handles_opened = {}
             /\ yielded = 0
             /\ edge_list = <<>>)
    /\ [][pc # "load" => anatomy_id_lookup' = anatomy_id_lookup]_vars
    /\ [](anatomy_id # NoEntry =>
             anatomy_id = anatomy_id_lookup[TissueName(ArchiveMembers[members_read])])
    /\ [](\A i \in DOMAIN edge_list :
             \E m \in handles_opened :
                 /\ TissueName(ArchiveMembers[m]) \in DOMAIN anatomy_id_lookup
                 /\ edge_list[i].expressed_in =
                        anatomy_id_lookup[TissueName(ArchiveMembers[m])])

\* the accumulator holds a record with a normalized anatomy id
C16_Witness ==
    \E i \in DOMAIN edge_list : \E label \in DOMAIN anatomy_id_lookup :
        /\ edge_list[i].expressed_in = anatomy_id_lookup[label]
        /\ anatomy_id_lookup[label] # TISSUES[label]

\* C17: an exception raised in the try block of load (download, parsing,
\* node processing, edge creation, coalescing) goes to the handler and leaves
\* load as SourceDataFailedError; once it is raised no further tuple is
\* processed and no further node or edge is written.
C17_FailureAbortsRun ==
    /\ [][(pc # "load" /\ raised = "" /\ raised' # "") => pc' = "except"]_vars
    /\ [](raised # "" => pc \in {"except", "finally", "exited"})
    /\ [](pc = "finally" => raised \in {"", "SourceDataFailedError"})
    /\ [][pc = "finally" => (pc' = "exited" /\ raised' = raised)]_vars
    /\ [][(pc \in {"except", "finally", "exited"}) =>
             (/\ UNCHANGED <<yielded, nodes_written, edges_written, edge_list>>
              /\ UNCHANGED <<caches, locals, convert_calls, members_read, handles_opened>>)]_vars

\* load has ended with the error after the eQTL pass had written an edge
C17_Witness ==
    /\ pc = "exited"
    /\ raised = "SourceDataFailedError"
    /\ is_sqtl
    /\ Len(edges_written) >= 1

\* C18: when load has ended, on whichever path, neither archive file exists
\* at its download path.
C18_ArchivesRemoved ==
    pc = "exited" => files \cap {EQTL_TAR, SQTL_TAR} = {}

\* C19: no node id is passed to write_node more than once in a run.
C19_NoNodeIdTwice ==
    \A id \in DOMAIN nodes_written : nodes_written[id] <= 1

\* C20: a member whose name does not hold the marker is passed over without
\* a handle being opened on it, and no line of it is read.
C20_UnmarkedNotOpened ==
    /\ \A m \in handles_opened : Contains(ArchiveMembers[m], SIGNIF)
    /\ anatomy_id # NoEntry => Contains(ArchiveMembers[members_read], SIGNIF)

\* C21: with an empty accumulator at coalescing time the call writes no
\* edge and returns normally, and load goes on: to the sQTL pass after the
\* eQTL one, to its end after the sQTL one.
C21_EmptyAccumulatorDrained ==
    [][(pc = "merge" /\ edge_list = <<>>) =>
          /\ raised' = ""
          /\ edges_written' = edges_written
          /\ pc' = IF is_sqtl THEN "finally" ELSE "open"]_vars

RECURSIVE AllObs(_)
\* the observations of the edges of out, over all positions, as one sequence
AllObs(out) ==
    IF out = <<>> THEN <<>>
    ELSE AllObs(SubSeq(out, 1, Len(out) - 1)) \o ObsSeq(out[Len(out)])

\* C22: a call on an accumulator that is not empty writes each observation of
\* the accumulator once: the observations over all positions of the edges it
\* writes are, as a multiset, those of the accumulator's records, and the
\* array lengths sum to the number of records.
C22_ObservationsKept ==
    [][(pc = "accumulated" /\ edge_list # <<>>) =>
          /\ raised' = ""
          /\ BagOf(AllObs(NewEdges)) = BagOf([i \in DOMAIN edge_list |-> Obs(edge_list[i])])
          /\ Len(AllObs(NewEdges)) = Len(edge_list)
          /\ \A j \in DOMAIN NewEdges :
               /\ Len(NewEdges[j].p_value) = Len(NewEdges[j].expressed_in)
               /\ Len(NewEdges[j].slope) = Len(NewEdges[j].expressed_in)]_vars

\* a call on three records, two of them equal, wrote two edges
C22_Witness ==
    /\ pc = "coalesced"
    /\ Len(edge_list) = 3
    /\ Len(edges_written) = 2
    /\ \E i, k \in DOMAIN edge_list : i < k /\ edge_list[i] = edge_list[k]

\* C23: edges are written in the drain steps only: none while the tuples of
\* an archive are consumed; the eQTL edges are all written before the first
\* sQTL tuple is processed and are not written again, the sQTL edges after
\* the last sQTL tuple.
C23_EdgesWrittenInDrain ==
    /\ [][edges_written' # edges_written => (pc = "merge" /\ pc' # "parse")]_vars
    /\ [][/\ Len(edges_written') >= Len(edges_written)
          /\ SubSeq(edges_written', 1, Len(edges_written)) = edges_written]_vars
    /\ [](~is_sqtl => edges_written = <<>>)
    /\ []((is_sqtl /\ pc \in {"open", "parse", "merge"}) =>
             \A j \in DOMAIN edges_written : edges_written[j].predicate # AFFECTS_SPLICING)
    /\ [][(is_sqtl /\ pc = "merge") =>
             \A j \in DOMAIN NewEdges : NewEdges[j].predicate = AFFECTS_SPLICING]_vars

\* both drains have written, the eQTL edge first
C23_Witness ==
    /\ pc = "finally"
    /\ raised = ""
    /\ Len(edges_written) = 2
    /\ edges_written[1].predicate = INCREASES_EXPRESSION
    /\ edges_written[2].predicate = AFFECTS_SPLICING

\* C24: an edge that is written, and a record that is accumulated, has for
\* subject the id of a variant node written before in the run and for
\* object the id of a gene node written before in the run.
C24_EdgeEndsWritten ==
    /\ \A j \in DOMAIN edges_written :
         /\ edges_written[j].subject \in VariantIds
         /\ edges_written[j].object \in GeneIds
         /\ BagCount(nodes_written, edges_written[j].subject) >= 1
         /\ BagCount(nodes_written, edges_written[j].object) >= 1
    /\ \A i \in DOMAIN edge_list :
         /\ BagCount(nodes_written, edge_list[i].subject) >= 1
         /\ BagCount(nodes_written, edge_list[i].object) >= 1

\* an edge was written whose variant and gene each have their node
C24_Witness ==
    /\ Len(edges_written) >= 1
    /\ BagCount(nodes_written, edges_written[1].subject) = 1
    /\ BagCount(nodes_written, edges_written[1].object) = 1
    /\ Cardinality(DOMAIN nodes_written) = 2

\* C25: process_variant never aborts the run: for every token, badly formed
\* ones included, the call returns an id or no id and the token is in the
\* cache afterwards with what the call returned.
C25_TokenNeverAborts ==
    [][TupleStep =>
          /\ gtex_variant' \in DOMAIN gtex_variant_to_hgvs_lookup'
          /\ variant_id' = gtex_variant_to_hgvs_lookup'[gtex_variant']]_vars

\* C26: every slope of a written increases-expression edge is above zero and
\* every slope of a written decreases-expression edge is zero or below; a
\* variant and gene observed with both signs have two edges.
C26_SlopeSignsMatch ==
    \A j \in DOMAIN edges_written :
        LET e == edges_written[j]
        IN  /\ e.predicate \in {INCREASES_EXPRESSION, DECREASES_EXPRESSION, AFFECTS_SPLICING}
            /\ e.predicate = INCREASES_EXPRESSION =>
                   \A i \in DOMAIN e.slope : e.slope[i] > 0
            /\ e.predicate = DECREASES_EXPRESSION =>
                   \A i \in DOMAIN e.slope : e.slope[i] <= 0

\* one variant and gene observed with both signs, written as two edges
C26_Witness ==
    /\ Len(edges_written) = 2
    /\ edges_written[1].subject = edges_written[2].subject
    /\ edges_written[1].object = edges_written[2].object
    /\ {edges_written[1].predicate, edges_written[2].predicate} =
           {INCREASES_EXPRESSION, DECREASES_EXPRESSION}

Permuted(l, p) == [i \in DOMAIN l |-> l[p[i]]]

\* the edges of one call as a multiset of (triple, multiset of observations)
EdgeView(written) ==
    BagOf([j \in DOMAIN written |->
              [key |-> Triple(written[j]), obs |-> BagOf(ObsSeq(written[j]))]])

\* C10: whatever the order of the accumulator's records, the call writes the
\* same edges: the same triples and, per triple, the same multiset of
\* (anatomy id, p-value, slope) observations.
C10_OrderInvariant ==
    pc = "coalesced" =>
        \A p \in Permutations(DOMAIN edge_list) :
            EdgeView(CoalesceResult(Permuted(edge_list, p)).written) = EdgeView(edges_written)

\* a call on three records of two triples, which has an order that interleaves them
C10_Witness ==
    /\ pc = "coalesced"
    /\ Len(edge_list) >= 3
    /\ Len(edges_written) = 2
    /\ \E p \in Permutations(DOMAIN edge_list) :
         LET l == Permuted(edge_list, p)
         IN  /\ Triple(l[1]) = Triple(l[3])
             /\ Triple(l[1]) # Triple(l[2])
             /\ l[1] # l[3]

====
